---------------------------- MODULE Spec2Model ----------------------------
(* A model of download_imagenet_kaggle.py: one run of main(), from the      *)
(* parsed command line to the process exit, with the filesystem, the        *)
(* operator's answer and the external kaggle command as the environment.    *)
(* Text is a sequence of one-character strings, so that substring search    *)
(* and str.lower() are computed, not assumed.                               *)
EXTENDS Integers, Sequences, FiniteSets, TLC

(***************************************************************************)
(* Bounds                                                                  *)
(***************************************************************************)
\* longest output directory path (in components) the model enumerates
MaxDepth == 2

(***************************************************************************)
(* Text: str.lower() and the "in" operator on strings                      *)
(***************************************************************************)
Upper == <<"A", "B", "C", "D", "E", "F", "G", "H", "I", "J", "K", "L", "M",
           "N", "O", "P", "Q", "R", "S", "T", "U", "V", "W", "X", "Y", "Z">>
Lower == <<"a", "b", "c", "d", "e", "f", "g", "h", "i", "j", "k", "l", "m",
           "n", "o", "p", "q", "r", "s", "t", "u", "v", "w", "x", "y", "z">>

\* str.lower() on one character
LowerChar(c) ==
    IF \E i \in DOMAIN Upper : Upper[i] = c
    THEN Lower[CHOOSE i \in DOMAIN Upper : Upper[i] = c]
    ELSE c

\* str.lower()
lower(s) == [i \in DOMAIN s |-> LowerChar(s[i])]

\* sub in s
Contains(sub, s) ==
    \E i \in 0..(Len(s) - Len(sub)) : SubSeq(s, i + 1, i + Len(sub)) = sub

S401 == <<"4", "0", "1">>
SUnauthorized == <<"U", "n", "a", "u", "t", "h", "o", "r", "i", "z", "e", "d">>
S404 == <<"4", "0", "4">>
Snotfound == <<"n", "o", "t", " ", "f", "o", "u", "n", "d">>
Sy == <<"y">>

\* error texts the external command is taken to write
ErrorTexts ==
    { <<"4", "0", "1">>,
      <<"U", "n", "a", "u", "t", "h", "o", "r", "i", "z", "e", "d">>,
      <<"4", "0", "4">>,
      <<"n", "o", "t", " ", "f", "o", "u", "n", "d">>,
      <<"N", "o", "t", " ", "F", "o", "u", "n", "d">>,
      <<"4", "0", "1", " ", "4", "0", "4">>,
      <<"4", "0", "4", " ", "U", "n", "a", "u", "t", "h", "o", "r", "i", "z", "e", "d">>,
      <<"u", "n", "a", "u", "t", "h", "o", "r", "i", "z", "e", "d">>,
      <<"5", "0", "0">>,
      <<>> }

\* answers the operator is taken to type at the prompt
Responses ==
    { <<"y">>, <<"Y">>, <<"n">>, <<"N">>, <<"y", "e", "s">>, <<" ", "y">>, <<>> }

(***************************************************************************)
(* The filesystem: directories and regular files, as paths relative to     *)
(* the working directory (<<>>); and the credentials file's stat result.   *)
(***************************************************************************)
Names == {"datasets", "imagenet"}

RECURSIVE PathsOfLen(_)
PathsOfLen(n) ==
    IF n = 0 THEN {<<>>}
    ELSE {Append(p, c) : p \in PathsOfLen(n - 1), c \in Names}

Paths == UNION {PathsOfLen(n) : n \in 1..MaxDepth}

\* the path and all its ancestors below the working directory
Prefixes(p) == {SubSeq(p, 1, k) : k \in 1..Len(p)}

\* the filesystems told apart by os.makedirs(p): the first k components of p
\* are directories, and the next one is missing or is a regular file
FilesystemsWith(p, k) ==
    {[dirs |-> Prefixes(SubSeq(p, 1, k)), files |-> F] :
        F \in {{}} \cup (IF k < Len(p) THEN {{SubSeq(p, 1, k + 1)}} ELSE {})}

FilesystemsFor(p) == UNION {FilesystemsWith(p, k) : k \in 0..Len(p)}

\* mask of the group and other permission bits tested on line 39
InsecureMask == 63

RECURSIVE BitAnd(_, _)
BitAnd(a, b) ==
    IF a = 0 \/ b = 0 THEN 0
    ELSE (a % 2) * (b % 2) + 2 * BitAnd(a \div 2, b \div 2)

\* st_mode of a regular file with permission bits p (S_IFREG | p)
RegularFile(p) == 32768 + p

\* permission bits enumerated: 600 644 700 400 640 604 601 610 777 000
PermBits == {384, 420, 448, 256, 416, 388, 385, 392, 511, 0}

CredentialFiles ==
    {[exists |-> FALSE, st_mode |-> 0]}
      \cup {[exists |-> TRUE, st_mode |-> RegularFile(p)] : p \in PermBits}

(***************************************************************************)
(* State                                                                   *)
(***************************************************************************)
VARIABLES
    pc,           \* position of the run
    args,         \* the parsed command line
    fs,           \* directories and files below the working directory
    kaggle_json,  \* ~/.kaggle/kaggle.json: existence and st_mode
    installed,    \* what check_kaggle_installed returned
    credentials,  \* (credentials_ok, message) of line 201
    response,     \* the operator's answer at the prompt
    cmd,          \* the command line handed to subprocess.run
    proc,         \* how subprocess.run ended
    stderr,       \* captured error text of a failed command
    success,      \* what download_imagenet_kaggle returned
    exc,          \* the exception that left main uncaught, if any
    exit_code,    \* the process exit code, -1 while running
    calls,        \* the side-effecting calls made, in order
    out           \* what was printed, in order

vars == <<pc, args, fs, kaggle_json, installed, credentials, response, cmd,
          proc, stderr, success, exc, exit_code, calls, out>>

Datasets == {"imagenet-object-localization-challenge", "c/imagenet"}

\* argparse results (lines 158-184)
Args ==
    [dataset : Datasets, output_dir : Paths, no_unzip : BOOLEAN, setup : BOOLEAN]

Init ==
    /\ pc = "main"
    /\ args \in Args
    /\ fs \in FilesystemsFor(args.output_dir)
    /\ kaggle_json \in CredentialFiles
    /\ installed = "unset"
    /\ credentials = [ok |-> FALSE, message |-> "unset"]
    /\ response = <<>>
    /\ cmd = <<>>
    /\ proc = "unset"
    /\ stderr = <<>>
    /\ success = "unset"
    /\ exc = "none"
    /\ exit_code = -1
    /\ calls = <<>>
    /\ out = <<>>

(***************************************************************************)
(* Pure parts                                                              *)
(***************************************************************************)
\* check_kaggle_credentials testing the "other" bits only
check_kaggle_credentials_OtherOnly(f) ==
    IF ~f.exists THEN [ok |-> FALSE, message |-> "not_found"]
    ELSE IF BitAnd(f.st_mode, 7) # 0
         THEN [ok |-> FALSE, message |-> "insecure_permissions"]
         ELSE [ok |-> TRUE, message |-> "ok"]

\* check_kaggle_credentials (lines 28-42)
check_kaggle_credentials(f) ==
    IF ~f.exists THEN [ok |-> FALSE, message |-> "not_found"]
    ELSE IF BitAnd(f.st_mode, InsecureMask) # 0
         THEN [ok |-> FALSE, message |-> "insecure_permissions"]
         ELSE [ok |-> TRUE, message |-> "ok"]

\* os.makedirs as if exist_ok were left at its default, False
makedirs_NotExistOk(f, p, exist_ok) ==
    IF \E q \in Prefixes(p) : q \in f.files
    THEN [raised |-> IF p \in f.files THEN "FileExistsError"
                     ELSE "NotADirectoryError",
          fs |-> f]
    ELSE IF p \in f.dirs
         THEN [raised |-> "FileExistsError", fs |-> f]
         ELSE [raised |-> "none",
               fs |-> [f EXCEPT !.dirs = f.dirs \cup Prefixes(p)]]

\* os.makedirs(p, exist_ok) (line 77): what it raises and the filesystem
\* after it. Missing ancestors are created first; a regular file on the way
\* makes mkdir fail; an existing directory is an error unless exist_ok.
makedirs(f, p, exist_ok) ==
    IF \E q \in Prefixes(p) : q \in f.files
    THEN [raised |-> IF p \in f.files THEN "FileExistsError"
                     ELSE "NotADirectoryError",
          fs |-> f]
    ELSE IF p \in f.dirs /\ ~exist_ok
         THEN [raised |-> "FileExistsError", fs |-> f]
         ELSE [raised |-> "none",
               fs |-> [f EXCEPT !.dirs = f.dirs \cup Prefixes(p)]]

\* the command line with --unzip appended unconditionally
BuildCmd_AlwaysUnzip(dataset_name, output_dir, unzip) ==
    <<"kaggle", "datasets", "download", "-d", dataset_name, "-p", output_dir,
      "--unzip">>

\* the command line of lines 81-84
BuildCmd(dataset_name, output_dir, unzip) ==
    <<"kaggle", "datasets", "download", "-d", dataset_name, "-p", output_dir>>
      \o (IF unzip THEN <<"--unzip">> ELSE <<>>)

\* the guidance branches tested in the other order
Guidance_NotFoundFirst(e_stderr) ==
    IF Contains(S404, e_stderr) \/ Contains(Snotfound, lower(e_stderr))
    THEN "not_found"
    ELSE IF Contains(S401, e_stderr) \/ Contains(SUnauthorized, e_stderr)
         THEN "auth"
         ELSE "none"

\* the guidance branch of lines 107-120: the if/elif over str(e.stderr)
Guidance(e_stderr) ==
    IF Contains(S401, e_stderr) \/ Contains(SUnauthorized, e_stderr)
    THEN "auth"
    ELSE IF Contains(S404, e_stderr) \/ Contains(Snotfound, lower(e_stderr))
         THEN "not_found"
         ELSE "none"

\* sys.exit(code), or main returning (code 0)
Exit(code) ==
    /\ pc' = "exit"
    /\ exit_code' = code

\* an exception nobody catches: traceback, exit code 1
Uncaught(e) ==
    /\ exc' = e
    /\ Exit(1)

(***************************************************************************)
(* main (lines 131-229) and download_imagenet_kaggle (lines 60-129)        *)
(***************************************************************************)
\* --setup printing the instructions without returning
MainSetup_FallsThrough ==
    /\ pc = "main"
    /\ args.setup
    /\ out' = Append(out, "setup_instructions")
    /\ calls' = Append(calls, "check_kaggle_installed")
    /\ installed' = "True"
    /\ pc' = "credentials"
    /\ UNCHANGED <<args, fs, kaggle_json, credentials, response, cmd, proc,
                   stderr, success, exc, exit_code>>

\* lines 187-189: --setup prints the instructions and returns
MainSetup ==
    /\ pc = "main"
    /\ args.setup
    /\ out' = Append(out, "setup_instructions")
    /\ Exit(0)
    /\ UNCHANGED <<args, fs, kaggle_json, installed, credentials, response, cmd,
                   proc, stderr, success, exc, calls>>

\* the installation check without the sys.exit(1)
MainCheckInstalled_NoExit ==
    /\ pc = "main"
    /\ ~args.setup
    /\ calls' = Append(calls, "check_kaggle_installed")
    /\ \E r \in BOOLEAN :
          /\ installed' = IF r THEN "True" ELSE "False"
          /\ out' = IF r THEN out ELSE Append(out, "install_instructions")
    /\ pc' = "credentials"
    /\ UNCHANGED <<args, fs, kaggle_json, credentials, response, cmd, proc,
                   stderr, success, exc, exit_code>>

\* lines 192-198: the installation check (lines 20-26: the import works or
\* raises ImportError)
MainCheckInstalled ==
    /\ pc = "main"
    /\ ~args.setup
    /\ calls' = Append(calls, "check_kaggle_installed")
    /\ \E r \in BOOLEAN :
          /\ installed' = IF r THEN "True" ELSE "False"
          /\ IF ~r
             THEN /\ out' = Append(out, "install_instructions")
                  /\ Exit(1)
             ELSE /\ pc' = "credentials"
                  /\ UNCHANGED <<out, exit_code>>
    /\ UNCHANGED <<args, fs, kaggle_json, credentials, response, cmd, proc,
                   stderr, success, exc>>

\* lines 201-204: the credential check
MainCheckCredentials ==
    /\ pc = "credentials"
    /\ calls' = Append(calls, "check_kaggle_credentials")
    /\ credentials' = check_kaggle_credentials(kaggle_json)
    /\ IF ~credentials'.ok
       THEN /\ out' = out \o <<"warning", "setup_instructions">>
            /\ pc' = "prompt"
       ELSE /\ pc' = "download"
            /\ UNCHANGED out
    /\ UNCHANGED <<args, fs, kaggle_json, installed, response, cmd, proc, stderr,
                   success, exc, exit_code>>

\* the prompt comparing the answer without lower()
MainPrompt_CaseSensitive ==
    /\ pc = "prompt"
    /\ calls' = Append(calls, "input")
    /\ \E r \in Responses :
          /\ response' = r
          /\ IF r # Sy
             THEN /\ out' = Append(out, "cancelled")
                  /\ Exit(0)
             ELSE /\ pc' = "download"
                  /\ UNCHANGED <<out, exit_code>>
    /\ UNCHANGED <<args, fs, kaggle_json, installed, credentials, cmd, proc,
                   stderr, success, exc>>

\* lines 207-210: the operator answers the prompt
MainPrompt ==
    /\ pc = "prompt"
    /\ calls' = Append(calls, "input")
    /\ \E r \in Responses :
          /\ response' = r
          /\ IF lower(r) # Sy
             THEN /\ out' = Append(out, "cancelled")
                  /\ Exit(0)
             ELSE /\ pc' = "download"
                  /\ UNCHANGED <<out, exit_code>>
    /\ UNCHANGED <<args, fs, kaggle_json, installed, credentials, cmd, proc,
                   stderr, success, exc>>

\* line 207 with standard input at end of file: input() raises EOFError,
\* which nothing catches
MainPromptEOF ==
    /\ pc = "prompt"
    /\ calls' = Append(calls, "input")
    /\ Uncaught("EOFError")
    /\ UNCHANGED <<args, fs, kaggle_json, installed, credentials, response, cmd,
                   proc, stderr, success, out>>

\* lines 69-77: the banner and os.makedirs, which stand before the try block,
\* so that what os.makedirs raises leaves download_imagenet_kaggle and main
DownloadMakedirs ==
    /\ pc = "download"
    /\ calls' = Append(calls, "os.makedirs")
    /\ out' = Append(out, "download_banner")
    /\ LET r == makedirs(fs, args.output_dir, TRUE) IN
         \/ /\ r.raised = "none"
            /\ fs' = r.fs
            /\ pc' = "subprocess"
            /\ UNCHANGED <<exc, exit_code>>
         \/ /\ r.raised # "none"
            /\ fs' = r.fs
            /\ Uncaught(r.raised)
         \/ /\ r.raised = "none"
            /\ r.fs # fs
            /\ Uncaught("PermissionError")
            /\ UNCHANGED fs
    /\ UNCHANGED <<args, kaggle_json, installed, credentials, response, cmd,
                   proc, stderr, success>>

\* what the downloader prints for each way subprocess.run ends
Report(how, e_stderr, unzip) ==
    <<"cmd_echo">> \o
    CASE how = "zero" ->
           <<"download_done",
             IF unzip THEN "files_extracted" ELSE "manual_extraction_required">>
      [] how = "CalledProcessError" ->
           <<"download_failed">>
             \o (IF Guidance(e_stderr) = "auth"
                 THEN <<"auth_failed", "setup_instructions">>
                 ELSE IF Guidance(e_stderr) = "not_found"
                      THEN <<"dataset_not_found">>
                      ELSE <<>>)
      [] how = "FileNotFoundError" -> <<"kaggle_command_not_found">>
      [] OTHER -> <<"error_occurred">>

\* the downloader trying the command again after a failure
DownloadRun_Retry ==
    /\ pc = "subprocess"
    /\ Len(calls) < 8
    /\ LET unzip == ~args.no_unzip IN
         /\ cmd' = BuildCmd(args.dataset, args.output_dir, unzip)
         /\ calls' = Append(calls, "subprocess.run")
         /\ \/ /\ proc' = "zero"
               /\ success' = "True"
               /\ pc' = "result"
               /\ UNCHANGED stderr
            \/ /\ proc' \in {"FileNotFoundError", "Exception"}
               /\ success' = "unset"
               /\ pc' = "subprocess"
               /\ UNCHANGED stderr
         /\ out' = out \o Report(proc', stderr', unzip)
    /\ UNCHANGED <<args, fs, kaggle_json, installed, credentials, response, exc,
                   exit_code>>

\* lines 79-129: the command is built and run once; a zero exit returns True
\* (89-101), CalledProcessError (103-122), FileNotFoundError (123-126) and
\* any other Exception (127-129) return False
DownloadRun ==
    /\ pc = "subprocess"
    /\ LET unzip == ~args.no_unzip IN
         /\ cmd' = BuildCmd(args.dataset, args.output_dir, unzip)
         /\ calls' = Append(calls, "subprocess.run")
         /\ \/ /\ proc' = "zero"
               /\ success' = "True"
               /\ UNCHANGED stderr
            \/ /\ proc' = "CalledProcessError"
               /\ stderr' \in ErrorTexts
               /\ success' = "False"
            \/ /\ proc' \in {"FileNotFoundError", "Exception"}
               /\ success' = "False"
               /\ UNCHANGED stderr
         /\ out' = out \o Report(proc', stderr', unzip)
    /\ pc' = "result"
    /\ UNCHANGED <<args, fs, kaggle_json, installed, credentials, response, exc,
                   exit_code>>

\* the closing step exiting 0 whatever the downloader returned
MainResult_AlwaysZero ==
    /\ pc = "result"
    /\ out' = Append(out, IF success = "True" THEN "banner_complete"
                          ELSE "banner_failed")
    /\ Exit(0)
    /\ UNCHANGED <<args, fs, kaggle_json, installed, credentials, response, cmd,
                   proc, stderr, success, exc, calls>>

\* lines 219-229: the closing banner and the exit code
MainResult ==
    /\ pc = "result"
    /\ IF success = "True"
       THEN /\ out' = Append(out, "banner_complete")
            /\ Exit(0)
       ELSE /\ out' = Append(out, "banner_failed")
            /\ Exit(1)
    /\ UNCHANGED <<args, fs, kaggle_json, installed, credentials, response, cmd,
                   proc, stderr, success, exc, calls>>

Next ==
    \/ MainSetup
    \/ MainCheckInstalled
    \/ MainCheckCredentials
    \/ MainPrompt
    \/ MainPromptEOF
    \/ DownloadMakedirs
    \/ DownloadRun
    \/ MainResult

Spec == Init /\ [][Next]_vars

(***************************************************************************)
(* Vocabulary of the properties                                            *)
(***************************************************************************)
Called(f) == \E i \in DOMAIN calls : calls[i] = f

Count(f) == Cardinality({i \in DOMAIN calls : calls[i] = f})

Printed(m) == \E i \in DOMAIN out : out[i] = m

Before(f, g) ==
    \A j \in DOMAIN calls :
        calls[j] = g => \E i \in 1..(j - 1) : calls[i] = f

CredentialsFailed ==
    Called("check_kaggle_credentials") /\ ~credentials.ok

\* the operator answered the prompt (the read did not hit end of file)
Answered == Called("input") /\ exc # "EOFError"

Affirmative == response \in {<<"y">>, <<"Y">>}

\* the run ended at the prompt with an answer other than y
Cancelled == pc = "exit" /\ CredentialsFailed /\ Answered /\ ~Affirmative

\* the downloader was entered and left by an exception
DownloaderRaised == Called("os.makedirs") /\ exc # "none"

(***************************************************************************)
(* C1                                                                      *)
(***************************************************************************)
\* C1: when check_kaggle_installed returns False (no --setup), the process
\* has exited with code 1 and the installation check is the only call made:
\* no credential check, no prompt, no os.makedirs, no kaggle command.
C1_InstallFailureExits ==
    installed = "False" =>
        /\ ~args.setup
        /\ pc = "exit"
        /\ exit_code = 1
        /\ calls = <<"check_kaggle_installed">>
        /\ cmd = <<>>
        /\ credentials.message = "unset"

C1_Witness ==
    installed = "False" /\ pc = "exit" /\ Printed("install_instructions")

(***************************************************************************)
(* C2                                                                      *)
(***************************************************************************)
\* C2 as stated: every ended run whose installation check failed, whose
\* downloader returned False, or whose credential check failed without the
\* operator overriding it, has exit code 1; and exit code 0 comes only from a
\* successful download or a cancelled run.
C2_Original ==
    pc = "exit" =>
        /\ (installed = "False" \/ success = "False"
              \/ (CredentialsFailed /\ ~Called("os.makedirs")))
             => exit_code = 1
        /\ exit_code = 0 => (success = "True" \/ Cancelled)

\* C2 amended: an ended run has exit code 1 when the installation check
\* failed or the downloader returned False; a run cancelled at the prompt
\* (credential check failed, answer other than y) has exit code 0; and exit
\* code 0 comes only from a successful download, a cancelled run or --setup.
C2_ExitCodes ==
    pc = "exit" =>
        /\ (installed = "False" \/ success = "False") => exit_code = 1
        /\ Cancelled => exit_code = 0
        /\ exit_code = 0 => (success = "True" \/ Cancelled \/ args.setup)
        /\ exit_code \in {0, 1}

C2_Witness ==
    pc = "exit" /\ success = "False" /\ exit_code = 1 /\ CredentialsFailed

(***************************************************************************)
(* C3                                                                      *)
(***************************************************************************)
\* C3: once download_imagenet_kaggle has been entered and left, it returned
\* True or False and no exception left it, whatever went wrong (output
\* directory creation included); and it returned True only on a zero exit.
C3_DownloaderNeverRaises ==
    /\ (Called("os.makedirs") /\ pc \in {"result", "exit"})
         => (success \in {"True", "False"} /\ exc = "none")
    /\ success = "True" => proc = "zero"

(***************************************************************************)
(* C4                                                                      *)
(***************************************************************************)
\* C4 as stated: the result is (False, not found) for an absent file,
\* (False, insecure permissions) when any permission bit outside owner-read
\* and owner-write is set (mode 700 included), and (True, ok) otherwise.
C4_Original ==
    Called("check_kaggle_credentials") =>
        credentials =
            IF ~kaggle_json.exists
            THEN [ok |-> FALSE, message |-> "not_found"]
            ELSE IF (kaggle_json.st_mode % 512) \notin {0, 128, 256, 384}
                 THEN [ok |-> FALSE, message |-> "insecure_permissions"]
                 ELSE [ok |-> TRUE, message |-> "ok"]

\* C4 amended: the result is (False, not found) for an absent file,
\* (False, insecure permissions) when any group or other permission bit is
\* set (644, 640, 604, 601, 610, 777), and (True, ok) otherwise: for 600 and
\* also for modes that differ from it in owner bits only (700, 400, 000).
C4_GroupOtherBits ==
    Called("check_kaggle_credentials") =>
        credentials =
            IF ~kaggle_json.exists
            THEN [ok |-> FALSE, message |-> "not_found"]
            ELSE IF kaggle_json.st_mode % 64 # 0
                 THEN [ok |-> FALSE, message |-> "insecure_permissions"]
                 ELSE [ok |-> TRUE, message |-> "ok"]

C4_Witness ==
    /\ Called("check_kaggle_credentials")
    /\ kaggle_json.exists
    /\ kaggle_json.st_mode % 512 = 448
    /\ credentials.ok

(***************************************************************************)
(* C5                                                                      *)
(***************************************************************************)
AuthText == Contains(S401, stderr) \/ Contains(SUnauthorized, stderr)

\* C5 as stated: on a non-zero exit the downloader returns False and prints
\* the authentication guidance iff the text contains "401" or
\* "Unauthorized", otherwise the not-found guidance iff it contains "404" or
\* exactly "not found", otherwise neither ("Not Found" selects no branch).
C5_Original ==
    proc = "CalledProcessError" =>
        /\ success = "False"
        /\ Printed("auth_failed") <=> AuthText
        /\ Printed("dataset_not_found") <=>
             (~AuthText /\ (Contains(S404, stderr) \/ Contains(Snotfound, stderr)))

\* C5 amended: on a non-zero exit the downloader returns False and prints
\* the authentication guidance iff the text contains "401" or
\* "Unauthorized"; otherwise the not-found guidance iff the text contains
\* "404" or, in any capitalisation, "not found"; otherwise neither. A text
\* with both "401" and "404" gets the authentication guidance only, and
\* "Not Found" gets the not-found guidance.
C5_GuidanceBranch ==
    proc = "CalledProcessError" =>
        /\ success = "False"
        /\ Printed("auth_failed") <=> AuthText
        /\ Printed("dataset_not_found") <=>
             (~AuthText /\ (Contains(S404, stderr)
                              \/ Contains(Snotfound, lower(stderr))))
        /\ ~(Printed("auth_failed") /\ Printed("dataset_not_found"))
        /\ (Contains(S401, stderr) /\ Contains(S404, stderr))
             => ~Printed("dataset_not_found")
        /\ stderr = <<"N", "o", "t", " ", "F", "o", "u", "n", "d">>
             => Printed("dataset_not_found")

C5_Witness ==
    /\ proc = "CalledProcessError"
    /\ Contains(S401, stderr) /\ Contains(S404, stderr)
    /\ Printed("auth_failed")

(***************************************************************************)
(* C6                                                                      *)
(***************************************************************************)
\* C6: with the installation check passed and the credential check failed,
\* the operator is prompted exactly once; an answer other than y (ignoring
\* case) ends the run with exit code 0 and the downloader is never entered;
\* the answer y or Y lets the run go on to the downloader. With the
\* credential check passed there is no prompt and the downloader is entered.
C6_PromptOnCredentialFailure ==
    /\ CredentialsFailed =>
         /\ installed = "True"
         /\ Count("input") = (IF pc = "prompt" THEN 0 ELSE 1)
         /\ (Answered /\ ~Affirmative) =>
              (pc = "exit" /\ exit_code = 0 /\ ~Called("os.makedirs")
                 /\ ~Called("subprocess.run"))
         /\ (Answered /\ Affirmative) =>
              (pc = "download" \/ Called("os.makedirs"))
    /\ (Called("check_kaggle_credentials") /\ credentials.ok) =>
         /\ ~Called("input")
         /\ pc = "download" \/ Called("os.makedirs")

C6_Witness ==
    CredentialsFailed /\ response = <<"Y">> /\ Called("subprocess.run")

(***************************************************************************)
(* C7                                                                      *)
(***************************************************************************)
\* C7: a run with --setup only prints the credential instructions and exits
\* 0: no installation check, no credential check, no prompt, no os.makedirs
\* and no command, whatever the other flags.
C7_SetupOnlyPrints ==
    args.setup =>
        /\ pc \in {"main", "exit"}
        /\ calls = <<>>
        /\ cmd = <<>>
        /\ pc = "exit" => (out = <<"setup_instructions">> /\ exit_code = 0)

C7_Witness ==
    args.setup /\ args.no_unzip /\ pc = "exit" /\ Printed("setup_instructions")

(***************************************************************************)
(* C8                                                                      *)
(***************************************************************************)
\* C8: the output directory and its ancestors exist when the command is
\* invoked; os.makedirs precedes subprocess.run; the command is not invoked
\* when os.makedirs raised; and os.makedirs on an existing directory leaves
\* the filesystem as it is and goes on to the command without an error.
C8_DirectoryBeforeCommand ==
    /\ [](/\ (pc = "subprocess" \/ Called("subprocess.run"))
               => (Prefixes(args.output_dir) \subseteq fs.dirs)
          /\ Before("os.makedirs", "subprocess.run")
          /\ DownloaderRaised => ~Called("subprocess.run"))
    /\ [][(pc = "download" /\ args.output_dir \in fs.dirs)
            => (fs' = fs /\ pc' = "subprocess" /\ exc' = "none")]_vars

C8_Witness ==
    /\ Called("subprocess.run")
    /\ Len(args.output_dir) > 1
    /\ Prefixes(args.output_dir) \subseteq fs.dirs

(***************************************************************************)
(* C9                                                                      *)
(***************************************************************************)
\* C9: the command is invoked at most once in a run; once the downloader has
\* returned, the run is at the closing step or over, and the downloader is
\* entered at most once.
C9_SingleAttempt ==
    /\ Count("subprocess.run") <= 1
    /\ Count("os.makedirs") <= 1
    /\ Called("subprocess.run") =>
         (success \in {"True", "False"} /\ pc \in {"result", "exit"})

C9_Witness ==
    pc = "exit" /\ proc = "FileNotFoundError" /\ Count("subprocess.run") = 1

(***************************************************************************)
(* C10                                                                     *)
(***************************************************************************)
\* C10: the command line ends in --unzip exactly when --no-unzip is absent;
\* a zero exit returns True and reports "files extracted" exactly when
\* --no-unzip is absent and "manual extraction required" exactly when it is
\* given.
C10_UnzipCarried ==
    Called("subprocess.run") =>
        /\ Len(cmd) = (IF args.no_unzip THEN 7 ELSE 8)
        /\ ~args.no_unzip => cmd[8] = "--unzip"
        /\ SubSeq(cmd, 1, 7) = <<"kaggle", "datasets", "download", "-d",
                                 args.dataset, "-p", args.output_dir>>
        /\ proc = "zero" =>
             /\ success = "True"
             /\ Printed("files_extracted") <=> ~args.no_unzip
             /\ Printed("manual_extraction_required") <=> args.no_unzip
        /\ proc # "zero" =>
             (~Printed("files_extracted")
                /\ ~Printed("manual_extraction_required"))

C10_Witness ==
    /\ proc = "zero"
    /\ args.no_unzip
    /\ Printed("manual_extraction_required")
    /\ Len(cmd) = 7

=============================================================================
